---- MODULE Spec2Model ----
(***************************************************************************)
(* Model of the game relay server of KahootCheats                          *)
(* (src/server/routes.ts, src/server/storage.ts).                          *)
(*                                                                         *)
(* Execution model.  The server is a single Node.js event loop.  A handler *)
(* started by a macrotask (an inbound WebSocket message, a WebSocket       *)
(* close, an event of a kahoot.js client) runs until it awaits a promise   *)
(* that is settled by I/O.  The only such promises are Kahoot.join() and   *)
(* Kahoot.answerQuestion().  The MemStorage methods are async functions    *)
(* without I/O: awaiting them resumes in a microtask, before any other     *)
(* macrotask is dispatched, so a handler is atomic between two I/O awaits. *)
(* Each action below is one such atomic segment.                           *)
(*                                                                         *)
(* JavaScript null / undefined are written NoPin (a join code), NoClient   *)
(* (a client handle), 0 (a record id) and <<>> (an optional object, held   *)
(* as a sequence of length 0 or 1).  Array positions are 1-based here;     *)
(* question indices and correct-answer indices keep their 0-based values.  *)
(***************************************************************************)
EXTENDS Integers, Sequences, FiniteSets, TLC

\* ----------------------------------------------------------------- bounds
\* Transport connections (WebSocket objects) and join codes of the model.
Conns == {"w1", "w2"}
Pins == {"p1"}
\* Number of Kahoot clients ever constructed (one per join command).
MaxClients == 2
\* Number of question records ever created.
MaxQuestions == 1
\* Largest 0-based question index the remote service announces.
MaxIndex == 0
\* Number of choices of every announced question.
NumChoices == 1

NoPin == "none"
NoClient == 0

\* The answer index of a step without answerQuestion call.
NoAnswer == -1

VARIABLES
    wsState,        \* readyState of every WebSocket: "new", "open", "closed"
    clients,        \* routes.ts:11  Map<WebSocket, {gamePin, kahootClient}>
    activeGames,    \* routes.ts:21  Map<string, game data>
    gameSessions,   \* storage.ts:30 Map<number, GameSession>, id = position
    questions,      \* storage.ts:31 Map<number, Question>, id = position
    kc,             \* the Kahoot clients constructed so far, handle = position
    out,            \* messages delivered by ws.send during the last step
    last,           \* the handler segment that ran in the last step
    browser         \* the browser page of every connection

vars == <<wsState, clients, activeGames, gameSessions, questions, kc, out, last,
          browser>>

\* ------------------------------------------------------------ Map helpers
MapSet(m, k, v) == [x \in (DOMAIN m) \cup {k} |-> IF x = k THEN v ELSE m[x]]

MapDelete(m, k) == [x \in (DOMAIN m) \ {k} |-> m[x]]

\* { ...record, ...update }
Merge(record, update) ==
    [f \in DOMAIN record |-> IF f \in DOMAIN update THEN update[f] ELSE record[f]]

\* The record written by wss.on("connection") and by cleanupGame.
\* username is constructed together with the Kahoot client and is read
\* nowhere; it is carried by the handle.
NullClient == [gamePin |-> NoPin, kahootClient |-> NoClient]

\* ---------------------------------------------------------------- storage
CreateGameSession(gs, insertSession) == Append(gs, insertSession)

\* A lookup that forgets the active flag.
GetGameSessionByPinAnyState(gs, gamePin) ==
    LET hits == {i \in 1..Len(gs) : gs[i].gamePin = gamePin}
    IN IF hits = {} THEN 0 ELSE CHOOSE i \in hits : \A j \in hits : i <= j

\* Array.from(values).find(...): first match in insertion (= id) order, 0 if none.
GetGameSessionByPin(gs, gamePin) ==
    LET hits == {i \in 1..Len(gs) : gs[i].gamePin = gamePin /\ gs[i].active}
    IN IF hits = {} THEN 0 ELSE CHOOSE i \in hits : \A j \in hits : i <= j

\* An update that also resets the question count of the record.
UpdateGameSessionResets(gs, id, sessionUpdate) ==
    IF id \notin 1..Len(gs) THEN gs
    ELSE [gs EXCEPT ![id] = Merge(Merge(gs[id], [questionCount |-> 0]), sessionUpdate)]

UpdateGameSession(gs, id, sessionUpdate) ==
    IF id \notin 1..Len(gs) THEN gs
    ELSE [gs EXCEPT ![id] = Merge(gs[id], sessionUpdate)]

CreateQuestion(qs, insertQuestion) == Append(qs, insertQuestion)

GetQuestionByIndex(qs, gameSessionId, index) ==
    LET hits == {i \in 1..Len(qs) : qs[i].gameSessionId = gameSessionId
                                    /\ qs[i].questionIndex = index}
    IN IF hits = {} THEN 0 ELSE CHOOSE i \in hits : \A j \in hits : i <= j

\* An update that forgets the id: it merges the update into every record.
UpdateQuestionEvery(qs, id, questionUpdate) ==
    IF id \notin 1..Len(qs) THEN qs
    ELSE [q \in 1..Len(qs) |-> Merge(qs[q], questionUpdate)]

UpdateQuestion(qs, id, questionUpdate) ==
    IF id \notin 1..Len(qs) THEN qs
    ELSE [qs EXCEPT ![id] = Merge(qs[id], questionUpdate)]

\* ---------------------------------------------------------- KahootService
\* KahootService.updateGameSession(gamePin, updates)
ServiceUpdateGameSession(gs, gamePin, updates) ==
    LET session == GetGameSessionByPin(gs, gamePin)
    IN IF session # 0 THEN UpdateGameSession(gs, session, updates) ELSE gs

\* KahootService.getCurrentQuestion(gamePin): id of the question, 0 if null.
GetCurrentQuestion(gs, qs, ag, gamePin) ==
    LET session == GetGameSessionByPin(gs, gamePin)
    IN IF session = 0 THEN 0
       ELSE IF gamePin \notin DOMAIN ag THEN 0
       ELSE GetQuestionByIndex(qs, session, ag[gamePin].currentQuestionIndex)

\* A cleanup that removes the player but forgets to reset the client record.
CleanupGameKeepsRecord(st, gamePin, ws) ==
    LET ag == st.activeGames
        players == IF gamePin \in DOMAIN ag THEN ag[gamePin].players \ {ws} ELSE {}
        ag2 == IF gamePin \in DOMAIN ag
               THEN IF Cardinality(players) = 0
                    THEN MapDelete(ag, gamePin)
                    ELSE [ag EXCEPT ![gamePin].players = players]
               ELSE ag
    IN [activeGames |-> ag2, clients |-> st.clients]

\* KahootService.cleanupGame on the pair of process-wide maps.
\* A cleanup that removes the player but never the game.
CleanupGameKeepsEmpty(st, gamePin, ws) ==
    LET ag == st.activeGames
        ag2 == IF gamePin \in DOMAIN ag
               THEN [ag EXCEPT ![gamePin].players = @ \ {ws}]
               ELSE ag
    IN [activeGames |-> ag2, clients |-> MapSet(st.clients, ws, NullClient)]

CleanupGame(st, gamePin, ws) ==
    LET ag == st.activeGames
        players == IF gamePin \in DOMAIN ag THEN ag[gamePin].players \ {ws} ELSE {}
        ag2 == IF gamePin \in DOMAIN ag
               THEN IF Cardinality(players) = 0
                    THEN MapDelete(ag, gamePin)
                    ELSE [ag EXCEPT ![gamePin].players = players]
               ELSE ag
    IN [activeGames |-> ag2, clients |-> MapSet(st.clients, ws, NullClient)]

\* Kahoot.leave() as seen by the server: the handle has been left once more.
Leave(clis, k) == [clis EXCEPT ![k].st = "left", ![k].leaves = @ + 1]

\* KahootService.disconnectFromGame: leave() on the handle of the record,
\* then cleanupGame.  st also carries the Kahoot clients.
DisconnectFromGame(st, gamePin, ws) ==
    LET hasClient == ws \in DOMAIN st.clients
                     /\ st.clients[ws].kahootClient # NoClient
        kc2 == IF hasClient THEN Leave(st.kc, st.clients[ws].kahootClient) ELSE st.kc
        c == CleanupGame([activeGames |-> st.activeGames, clients |-> st.clients],
                         gamePin, ws)
    IN [activeGames |-> c.activeGames, clients |-> c.clients, kc |-> kc2]

\* ws.send(JSON.stringify(msg)): delivered only on an OPEN socket.  On a
\* CLOSING or CLOSED socket send() returns without throwing and the message
\* is dropped: routes.ts:3 imports the named export WebSocketServer, which
\* only the ws versions with this behaviour of send() provide.  A server-side
\* socket is never CONNECTING.
Send(ws, msg) == IF wsState[ws] = "open" THEN <<[to |-> ws, msg |-> msg]>> ELSE <<>>

Step(op, ws, pin, client) == [op |-> op, ws |-> ws, pin |-> pin, client |-> client]

\* ------------------------------------------------------------------- Init
\* A page before its socket has opened: the initial state of the hook, of
\* the GameInterface panel and of the form; nothing in flight, no pending
\* timeout.
InitBrowser ==
    [w \in Conns |->
        [readyState |-> "connecting", connected |-> FALSE, gamePin |-> NoPin,
         question |-> <<>>, autoAnswer |-> FALSE, answerDelay |-> FALSE,
         timer |-> NoAnswer, interfaceAutoAnswer |-> FALSE,
         interfaceAnswerDelay |-> FALSE, interfaceTimer |-> NoAnswer,
         inputPin |-> "", validationError |-> FALSE,
         inbox |-> <<>>, outbox |-> <<>>, selections |-> 0]]

Init ==
    /\ wsState = [w \in Conns |-> "new"]
    /\ clients = [w \in {} |-> NullClient]
    /\ activeGames = [p \in {} |-> 0]
    /\ gameSessions = <<>>
    /\ questions = <<>>
    /\ kc = <<>>
    /\ out = <<>>
    /\ last = Step("init", NoPin, NoPin, NoClient)
    /\ browser = InitBrowser

\* ------------------------------------------------ transport: connect/close
\* wss.on("connection")
Connection(w) ==
    /\ wsState[w] = "new"
    /\ wsState' = [wsState EXCEPT ![w] = "open"]
    /\ clients' = MapSet(clients, w, NullClient)
    /\ out' = <<>>
    /\ last' = Step("connection", w, NoPin, NoClient)
    /\ UNCHANGED <<activeGames, gameSessions, questions, kc>>

\* ws.on("close")
Close(w) ==
    /\ wsState[w] = "open"
    /\ LET clientData == IF w \in DOMAIN clients THEN clients[w] ELSE NullClient
           st == [activeGames |-> activeGames, clients |-> clients, kc |-> kc]
           st2 == IF clientData.gamePin # NoPin
                  THEN DisconnectFromGame(st, clientData.gamePin, w)
                  ELSE st
       IN /\ activeGames' = st2.activeGames
          /\ kc' = st2.kc
          /\ clients' = MapDelete(st2.clients, w)
          /\ last' = Step("close", w, clientData.gamePin, clientData.kahootClient)
    /\ wsState' = [wsState EXCEPT ![w] = "closed"]
    /\ out' = <<>>
    /\ UNCHANGED <<gameSessions, questions>>

\* ------------------------------------------------------ inbound commands
\* case "join", up to the await of client.join(): a Kahoot client is
\* constructed, its handlers are registered for (gamePin, ws), join is called.
JoinCmd(w, gamePin) ==
    /\ wsState[w] = "open"
    /\ Len(kc) < MaxClients
    /\ kc' = Append(kc, [gamePin |-> gamePin, ws |-> w, st |-> "joining",
                         leaves |-> 0, session |-> 0, lost |-> FALSE])
    /\ out' = <<>>
    /\ last' = Step("join", w, gamePin, Len(kc) + 1)
    /\ UNCHANGED <<wsState, clients, activeGames, gameSessions, questions>>

\* A fresh entry of activeGames (routes.ts:88-98).
NewGame(client, ws) ==
    [client |-> client, players |-> {ws}, currentQuiz |-> <<>>,
     currentQuestion |-> <<>>, questionAnswers |-> <<>>, correctAnswers |-> <<>>,
     currentQuestionIndex |-> 0, totalQuestions |-> 0, points |-> 0]

\* A fresh session record (routes.ts:77-84); createdAt is a time stamp that
\* nothing reads.
NewSession(gamePin) ==
    [gamePin |-> gamePin, gameId |-> <<"kahoot-", gamePin>>, active |-> TRUE,
     questionCount |-> 0, currentQuestion |-> 0]

\* joinGame after client.join() resolved (routes.ts:69-105), then the
\* success branch of case "join", which sends nothing.
JoinResolve(k) ==
    /\ k \in 1..Len(kc)
    /\ kc[k].st = "joining"
    /\ LET ws == kc[k].ws
           gamePin == kc[k].gamePin
       IN /\ clients' = MapSet(clients, ws, [gamePin |-> gamePin, kahootClient |-> k])
          /\ gameSessions' = CreateGameSession(gameSessions, NewSession(gamePin))
          /\ activeGames' =
                IF gamePin \notin DOMAIN activeGames
                THEN MapSet(activeGames, gamePin, NewGame(k, ws))
                ELSE [activeGames EXCEPT ![gamePin].players = @ \cup {ws}]
          /\ kc' = [kc EXCEPT ![k].st = "joined", ![k].session = Len(gameSessions) + 1]
          /\ last' = Step("joinResolve", ws, gamePin, k)
    /\ out' = <<>>
    /\ UNCHANGED <<wsState, questions>>

\* joinGame after client.join() rejected: returns false, case "join" sends
\* the error notification.
JoinReject(k) ==
    /\ k \in 1..Len(kc)
    /\ kc[k].st = "joining"
    /\ kc' = [kc EXCEPT ![k].st = "failed"]
    /\ out' = Send(kc[k].ws,
                   [type |-> "error",
                    message |-> <<"Could not join game. Invalid PIN or game not found.">>])
    /\ last' = Step("joinReject", kc[k].ws, kc[k].gamePin, k)
    /\ UNCHANGED <<wsState, clients, activeGames, gameSessions, questions>>

\* case "disconnect"
DisconnectCmd(w) ==
    /\ wsState[w] = "open"
    /\ LET clientData == IF w \in DOMAIN clients THEN clients[w] ELSE NullClient
           st == [activeGames |-> activeGames, clients |-> clients, kc |-> kc]
       IN IF clientData.gamePin # NoPin
          THEN LET st2 == DisconnectFromGame(st, clientData.gamePin, w)
               IN /\ activeGames' = st2.activeGames
                  /\ clients' = st2.clients
                  /\ kc' = st2.kc
                  /\ out' = Send(w, [type |-> "gameState",
                                     data |-> [connected |-> FALSE]])
                  /\ last' = Step("disconnect", w, clientData.gamePin,
                                  clientData.kahootClient)
          ELSE /\ UNCHANGED <<activeGames, clients, kc>>
               /\ out' = <<>>
               /\ last' = Step("disconnect", w, NoPin, NoClient)
    /\ UNCHANGED <<wsState, gameSessions, questions>>

\* ------------------------------------------------- schema of the commands
\* An inbound frame: whether JSON.parse accepts it, whether the parsed value
\* is an object, its type member, and the typeof of its other members
\* ("undefined" for a member that is absent).
MessageTypes == {"join", "disconnect", "selectAnswer", "toggleAutoAnswer",
                 "toggleAnswerDelay"}

Frame(json, object, type, gamePin, answer, index, autoAnswer, answerDelay) ==
    [json |-> json, object |-> object, type |-> type, gamePin |-> gamePin,
     answer |-> answer, index |-> index, autoAnswer |-> autoAnswer,
     answerDelay |-> answerDelay]

\* The frames of the model: well-formed commands, and frames that are not
\* JSON, not an object, of an unknown or missing type, or with a member of
\* the wrong type.
RawMessages ==
    { Frame(TRUE, TRUE, "join", "string", "undefined", "undefined", "undefined", "undefined"),
      Frame(TRUE, TRUE, "disconnect", "undefined", "undefined", "undefined", "undefined", "undefined"),
      Frame(TRUE, TRUE, "selectAnswer", "undefined", "object", "number", "undefined", "undefined"),
      Frame(TRUE, TRUE, "toggleAutoAnswer", "undefined", "undefined", "undefined", "boolean", "undefined"),
      Frame(FALSE, FALSE, "undefined", "undefined", "undefined", "undefined", "undefined", "undefined"),
      Frame(TRUE, FALSE, "undefined", "undefined", "undefined", "undefined", "undefined", "undefined"),
      Frame(TRUE, TRUE, "undefined", "undefined", "undefined", "undefined", "undefined", "undefined"),
      Frame(TRUE, TRUE, "leave", "undefined", "undefined", "undefined", "undefined", "undefined"),
      Frame(TRUE, TRUE, "join", "number", "undefined", "undefined", "undefined", "undefined"),
      Frame(TRUE, TRUE, "selectAnswer", "undefined", "string", "undefined", "undefined", "undefined"),
      Frame(TRUE, TRUE, "selectAnswer", "undefined", "object", "string", "undefined", "undefined"),
      Frame(TRUE, TRUE, "toggleAutoAnswer", "undefined", "undefined", "undefined", "string", "undefined"),
      Frame(TRUE, TRUE, "toggleAnswerDelay", "undefined", "undefined", "undefined", "undefined", "number") }

\* z.<t>().optional()
Optional(typeof, t) == typeof \in {"undefined", t}

\* A schema whose type member is any string instead of the enum.
SchemaOkAnyType(raw) ==
    /\ raw.json
    /\ raw.object
    /\ raw.type # "undefined"
    /\ Optional(raw.gamePin, "string")
    /\ Optional(raw.answer, "object")
    /\ (raw.answer = "object" => Optional(raw.index, "number"))
    /\ Optional(raw.autoAnswer, "boolean")
    /\ Optional(raw.answerDelay, "boolean")

\* JSON.parse(message) does not throw and clientMessageSchema.parse accepts
\* the value (schema.ts:88-97).
SchemaOk(raw) ==
    /\ raw.json
    /\ raw.object
    /\ raw.type \in MessageTypes
    /\ Optional(raw.gamePin, "string")
    /\ Optional(raw.answer, "object")
    /\ (raw.answer = "object" => Optional(raw.index, "number"))
    /\ Optional(raw.autoAnswer, "boolean")
    /\ Optional(raw.answerDelay, "boolean")

\* ws.on("message") for a frame that JSON.parse or the schema rejects: the
\* catch block sends the generic error notification.
InvalidMessage(w, raw) ==
    /\ wsState[w] = "open"
    /\ ~SchemaOk(raw)
    /\ out' = Send(w, [type |-> "error",
                       message |-> <<"Invalid message format or action">>])
    /\ last' = Step("invalid", w, NoPin, NoClient)
    /\ UNCHANGED <<wsState, clients, activeGames, gameSessions, questions, kc>>

\* A selectAnswer that answers on the client that created the game.
SelectAnswerGameClient(cl, ag, gamePin, ws) ==
    IF ws \notin DOMAIN cl \/ cl[ws].kahootClient = NoClient THEN NoClient
    ELSE IF gamePin \notin DOMAIN ag \/ ag[gamePin].currentQuestion = <<>> THEN NoClient
    ELSE ag[gamePin].client

\* A selectAnswer that forgets to look the game up.
SelectAnswerNoGameCheck(cl, ag, gamePin, ws) ==
    IF ws \notin DOMAIN cl \/ cl[ws].kahootClient = NoClient THEN NoClient
    ELSE cl[ws].kahootClient

\* KahootService.selectAnswer: the handle answerQuestion(answerIndex) is
\* called on, NoClient when it returns false without calling the library.
\* Nothing follows the await of answerQuestion but the return value, which
\* case "selectAnswer" ignores, whether the call resolved or rejected.
SelectAnswer(cl, ag, gamePin, ws) ==
    IF ws \notin DOMAIN cl \/ cl[ws].kahootClient = NoClient THEN NoClient
    ELSE IF gamePin \notin DOMAIN ag \/ ag[gamePin].currentQuestion = <<>> THEN NoClient
    ELSE cl[ws].kahootClient

\* case "selectAnswer" with answer.index defined.  last.client is the handle
\* answerQuestion was called on and last.answer the index it was called with.
SelectAnswerCmd(w, answerIndex) ==
    /\ wsState[w] = "open"
    /\ LET clientInfo == IF w \in DOMAIN clients THEN clients[w] ELSE NullClient
           called == IF clientInfo.gamePin # NoPin
                     THEN SelectAnswer(clients, activeGames, clientInfo.gamePin, w)
                     ELSE NoClient
       IN last' = [ws |-> w, op |-> "selectAnswer", pin |-> clientInfo.gamePin,
                   client |-> called,
                   answer |-> IF called # NoClient THEN answerIndex ELSE NoAnswer]
    /\ out' = <<>>
    /\ UNCHANGED <<wsState, clients, activeGames, gameSessions, questions, kc>>

ToggleTypes == {"toggleAutoAnswer", "toggleAnswerDelay"}

\* A toggle handler that acknowledges the preference to the sender.
ToggleCmdReplies(w, type) ==
    /\ wsState[w] = "open"
    /\ out' = Send(w, [type |-> "gameState", data |-> [connected |-> TRUE]])
    /\ last' = Step(type, w, NoPin, NoClient)
    /\ UNCHANGED <<wsState, clients, activeGames, gameSessions, questions, kc>>

\* case "toggleAutoAnswer", case "toggleAnswerDelay": the preference is
\* logged and stored nowhere.
ToggleCmd(w, type) ==
    /\ wsState[w] = "open"
    /\ out' = <<>>
    /\ last' = Step(type, w, NoPin, NoClient)
    /\ UNCHANGED <<wsState, clients, activeGames, gameSessions, questions, kc>>

\* ------------------------------------------- events of the Kahoot clients
\* The handlers registered by setupKahootClientEvents(client, gamePin, ws)
\* close over the join code and the socket of the join command: kc[k].gamePin
\* and kc[k].ws.  They are never removed.  The library emits game events
\* while the client is joined (join() resolved, neither left nor disconnected)
\* and emits "disconnect" when its socket closes, also after leave().
Emitting(k) == k \in 1..Len(kc) /\ kc[k].st = "joined"

\* quiz.questionCount of the quiz the remote service runs.
QuestionCounts == {MaxIndex + 1}

Colors == <<"red", "blue", "yellow", "green">>
Shapes == <<"triangle", "square", "circle", "diamond">>

\* colors[index], shapes[index] for a 0-based index
ColorAt(index) == IF index + 1 \in DOMAIN Colors THEN Colors[index + 1] ELSE "undefined"
ShapeAt(index) == IF index + 1 \in DOMAIN Shapes THEN Shapes[index + 1] ELSE "undefined"

\* The question payload of the library; text, type, time limit and points
\* are the same for every question of the model.
QuestionPayloadOf(index, numChoices) ==
    [index |-> index, question |-> "Q", type |-> "quiz",
     choices |-> [i \in 1..numChoices |-> [answer |-> i]],
     timeLimit |-> 20000, points |-> 1000]

QuestionPayload(index) == QuestionPayloadOf(index, NumChoices)

\* A mapping that marks the first choice correct from the start.
MapAnswersFirstCorrect(choices) ==
    [i \in 1..Len(choices) |->
        [text |-> choices[i].answer, color |-> ColorAt(i - 1),
         shape |-> ShapeAt(i - 1), isCorrect |-> (i = 1)]]

\* question.choices.map(...) (routes.ts:163-169)
MapAnswers(choices) ==
    [i \in 1..Len(choices) |->
        [text |-> choices[i].answer, color |-> ColorAt(i - 1),
         shape |-> ShapeAt(i - 1), isCorrect |-> FALSE]]

\* The loop of routes.ts:221-226: ascending 0-based indices of truthy entries.
RECURSIVE CorrectIndicesFrom(_, _)
CorrectIndicesFrom(correctChoices, i) ==
    IF i > Len(correctChoices) THEN <<>>
    ELSE (IF correctChoices[i] THEN <<i - 1>> ELSE <<>>)
         \o CorrectIndicesFrom(correctChoices, i + 1)

\* A loop that stops at the first truthy entry.
CorrectIndicesFirstOnly(correctChoices) ==
    LET all == CorrectIndicesFrom(correctChoices, 1)
    IN IF Len(all) > 1 THEN <<all[1]>> ELSE all

CorrectIndices(correctChoices) == CorrectIndicesFrom(correctChoices, 1)

\* correctIndices.includes(idx)
Includes(seq, x) == \E i \in 1..Len(seq) : seq[i] = x

\* The handler of "quizStart" registered for client k.
QuizStartHandler(k, questionCount) ==
    /\ LET gamePin == kc[k].gamePin
           ws == kc[k].ws
       IN /\ last' = Step("quizStart", ws, gamePin, k)
          /\ IF gamePin \in DOMAIN activeGames
             THEN /\ activeGames' = [activeGames EXCEPT
                        ![gamePin].currentQuiz = <<[questionCount |-> questionCount]>>,
                        ![gamePin].totalQuestions = questionCount]
                  /\ gameSessions' = ServiceUpdateGameSession(gameSessions, gamePin,
                                        [questionCount |-> questionCount])
                  /\ out' = Send(ws, [type |-> "gameState",
                               data |-> [gamePin |-> gamePin, connected |-> TRUE,
                                         gameProgress |-> [current |-> 0,
                                                           total |-> questionCount,
                                                           points |-> 0]]])
             ELSE /\ UNCHANGED <<activeGames, gameSessions>>
                  /\ out' = <<>>
    /\ UNCHANGED <<wsState, clients, questions>>

\* client.on("quizStart")
QuizStart(k, questionCount) ==
    /\ Emitting(k)
    /\ QuizStartHandler(k, questionCount)
    /\ UNCHANGED kc

\* client.on("questionStart") for the question index with numChoices
\* choices; the store of the model holds at most maxQuestions question
\* records.
QuestionStartHandler(k, index, numChoices, maxQuestions) ==
    /\ LET question == QuestionPayloadOf(index, numChoices)
           gamePin == kc[k].gamePin
           ws == kc[k].ws
           answers == MapAnswers(question.choices)
           session == GetGameSessionByPin(gameSessions, gamePin)
       IN /\ last' = Step("questionStart", ws, gamePin, k)
          /\ IF gamePin \in DOMAIN activeGames
             THEN /\ activeGames' = [activeGames EXCEPT
                        ![gamePin].currentQuestion = <<question>>,
                        ![gamePin].currentQuestionIndex = question.index,
                        ![gamePin].questionAnswers = <<>>]
                  /\ IF session # 0
                     THEN /\ Len(questions) < maxQuestions
                          /\ questions' = CreateQuestion(questions,
                                [gameSessionId |-> session,
                                 questionIndex |-> question.index,
                                 questionText |-> question.question,
                                 questionType |-> question.type,
                                 answers |-> answers,
                                 correctAnswer |-> <<>>,
                                 timeLimit |-> question.timeLimit \div 1000,
                                 points |-> question.points])
                          /\ gameSessions' = ServiceUpdateGameSession(gameSessions,
                                gamePin, [currentQuestion |-> question.index])
                     ELSE UNCHANGED <<questions, gameSessions>>
                  /\ out' = Send(ws, [type |-> "gameState",
                               data |-> [gamePin |-> gamePin, connected |-> TRUE,
                                         currentQuestion |->
                                            [text |-> question.question,
                                             type |-> question.type,
                                             answers |-> answers,
                                             timeLeft |-> question.timeLimit \div 1000],
                                         gameProgress |->
                                            [current |-> question.index + 1,
                                             total |-> activeGames[gamePin].totalQuestions,
                                             points |-> activeGames[gamePin].points]]])
             ELSE /\ UNCHANGED <<activeGames, gameSessions, questions>>
                  /\ out' = <<>>
    /\ UNCHANGED <<wsState, clients>>

QuestionStartOf(k, index, numChoices, maxQuestions) ==
    /\ Emitting(k)
    /\ QuestionStartHandler(k, index, numChoices, maxQuestions)
    /\ UNCHANGED kc

\* The library emits an event of client k while join() is still pending: the
\* handlers are registered before join() is called.  lost records that the
\* handler found no active game and dropped the event.
EmittingEarly(k) == k \in 1..Len(kc) /\ kc[k].st = "joining"

DropsEvent(k) == kc[k].gamePin \notin DOMAIN activeGames

EarlyQuizStart(k, questionCount) ==
    /\ EmittingEarly(k)
    /\ QuizStartHandler(k, questionCount)
    /\ kc' = [kc EXCEPT ![k].lost = @ \/ DropsEvent(k)]

EarlyQuestionStart(k, index) ==
    /\ EmittingEarly(k)
    /\ QuestionStartHandler(k, index, NumChoices, MaxQuestions)
    /\ kc' = [kc EXCEPT ![k].lost = @ \/ DropsEvent(k)]

QuestionStart(k, index) == QuestionStartOf(k, index, NumChoices, MaxQuestions)

\* client.on("questionEnd")
QuestionEnd(k, questionIndex, correctChoices) ==
    /\ Emitting(k)
    /\ LET gamePin == kc[k].gamePin
           ws == kc[k].ws
           correctIndices == CorrectIndices(correctChoices)
           session == GetGameSessionByPin(gameSessions, gamePin)
           question == IF session # 0
                       THEN GetQuestionByIndex(questions, session, questionIndex)
                       ELSE 0
           updatedAnswers ==
               [idx \in 1..Len(questions[question].answers) |->
                   Merge(questions[question].answers[idx],
                         [isCorrect |-> Includes(correctIndices, idx - 1)])]
           questions2 ==
               IF question # 0
               THEN UpdateQuestion(questions, question,
                        [answers |-> updatedAnswers,
                         correctAnswer |->
                            IF Len(correctIndices) > 0
                            THEN <<updatedAnswers[correctIndices[1] + 1]>>
                            ELSE <<>>])
               ELSE questions
       IN /\ last' = Step("questionEnd", ws, gamePin, k)
          /\ IF gamePin \in DOMAIN activeGames
             THEN /\ activeGames' = [activeGames EXCEPT
                        ![gamePin].correctAnswers = correctIndices]
                  /\ questions' = questions2
                  /\ out' = IF GetCurrentQuestion(gameSessions, questions2,
                                                  activeGames, gamePin) # 0
                            THEN Send(ws, [type |-> "questionResult",
                                      data |-> [correctIndices |-> correctIndices,
                                                questionIndex |-> questionIndex]])
                            ELSE <<>>
             ELSE /\ UNCHANGED <<activeGames, questions>>
                  /\ out' = <<>>
    /\ UNCHANGED <<wsState, clients, gameSessions, kc>>

\* client.on("quizEnd")
QuizEnd(k, questionCount) ==
    /\ Emitting(k)
    /\ LET gamePin == kc[k].gamePin
           ws == kc[k].ws
           points == IF gamePin \in DOMAIN activeGames
                     THEN activeGames[gamePin].points ELSE 0
       IN /\ last' = Step("quizEnd", ws, gamePin, k)
          /\ gameSessions' = ServiceUpdateGameSession(gameSessions, gamePin,
                                [active |-> FALSE])
          /\ out' = Send(ws, [type |-> "gameState",
                       data |-> [gamePin |-> gamePin, connected |-> TRUE,
                                 gameProgress |-> [current |-> questionCount,
                                                   total |-> questionCount,
                                                   points |-> points],
                                 quizEnded |-> TRUE]])
    /\ UNCHANGED <<wsState, clients, activeGames, questions, kc>>

\* The payloads an "error" event carries (the declaration types it any): a
\* string, an Error object with that message, a plain object holding it.
ErrorPayloads == {[text |-> "E", kind |-> "string"],
                  [text |-> "E", kind |-> "Error"],
                  [text |-> "E", kind |-> "object"]}

\* `${error}`: a string is itself, an Error is its name and message, any
\* other object is "[object Object]".
TemplateString(error) ==
    CASE error.kind = "string" -> <<error.text>>
      [] error.kind = "Error" -> <<"Error: ", error.text>>
      [] OTHER -> <<"[object Object]">>

\* An error handler that reports the error in a data member.
ErrorEventAsData(k, error) ==
    /\ Emitting(k)
    /\ last' = Step("error", kc[k].ws, kc[k].gamePin, k)
    /\ out' = Send(kc[k].ws, [type |-> "error",
                              data |-> <<"Error with Kahoot game: ">>
                                       \o TemplateString(error)])
    /\ UNCHANGED <<wsState, clients, activeGames, gameSessions, questions, kc>>

\* client.on("error")
ErrorEvent(k, error) ==
    /\ Emitting(k)
    /\ last' = Step("error", kc[k].ws, kc[k].gamePin, k)
    /\ out' = Send(kc[k].ws, [type |-> "error",
                              message |-> <<"Error with Kahoot game: ">>
                                          \o TemplateString(error)])
    /\ UNCHANGED <<wsState, clients, activeGames, gameSessions, questions, kc>>

\* A disconnect handler whose send throws on a socket that is not open, so
\* that cleanupGame is skipped.
DisconnectEventSendThrows(k) ==
    /\ k \in 1..Len(kc)
    /\ kc[k].st \in {"joined", "left"}
    /\ LET gamePin == kc[k].gamePin
           ws == kc[k].ws
           st2 == IF wsState[ws] = "open"
                  THEN CleanupGame([activeGames |-> activeGames, clients |-> clients],
                                   gamePin, ws)
                  ELSE [activeGames |-> activeGames, clients |-> clients]
       IN /\ last' = Step("disconnectEvent", ws, gamePin, k)
          /\ out' = Send(ws, [type |-> "gameState", data |-> [connected |-> FALSE]])
          /\ activeGames' = st2.activeGames
          /\ clients' = st2.clients
    /\ kc' = [kc EXCEPT ![k].st = "gone"]
    /\ UNCHANGED <<wsState, gameSessions, questions>>

\* client.on("disconnect"): the notification, then cleanupGame.
DisconnectEvent(k) ==
    /\ k \in 1..Len(kc)
    /\ kc[k].st \in {"joined", "left"}
    /\ LET gamePin == kc[k].gamePin
           ws == kc[k].ws
           st2 == CleanupGame([activeGames |-> activeGames, clients |-> clients],
                              gamePin, ws)
       IN /\ last' = Step("disconnectEvent", ws, gamePin, k)
          /\ out' = Send(ws, [type |-> "gameState", data |-> [connected |-> FALSE]])
          /\ activeGames' = st2.activeGames
          /\ clients' = st2.clients
    /\ kc' = [kc EXCEPT ![k].st = "gone"]
    /\ UNCHANGED <<wsState, gameSessions, questions>>

\* ------------------------------------------------------------------- Next
Next ==
    \/ \E w \in Conns : Connection(w) /\ UNCHANGED browser
    \/ \E w \in Conns : Close(w) /\ UNCHANGED browser
    \/ \E w \in Conns, gamePin \in Pins : JoinCmd(w, gamePin) /\ UNCHANGED browser
    \/ \E k \in 1..MaxClients : JoinResolve(k) /\ UNCHANGED browser
    \/ \E k \in 1..MaxClients : JoinReject(k) /\ UNCHANGED browser
    \/ \E w \in Conns : DisconnectCmd(w) /\ UNCHANGED browser
    \/ \E w \in Conns, raw \in RawMessages : InvalidMessage(w, raw) /\ UNCHANGED browser
    \/ \E w \in Conns, answerIndex \in 0..(NumChoices - 1) : SelectAnswerCmd(w, answerIndex) /\ UNCHANGED browser
    \/ \E w \in Conns, type \in ToggleTypes : ToggleCmd(w, type) /\ UNCHANGED browser
    \/ \E k \in 1..MaxClients, n \in QuestionCounts : QuizStart(k, n) /\ UNCHANGED browser
    \/ \E k \in 1..MaxClients, index \in 0..MaxIndex : QuestionStart(k, index) /\ UNCHANGED browser
    \/ \E k \in 1..MaxClients, index \in 0..MaxIndex,
          c \in [1..NumChoices -> BOOLEAN] : QuestionEnd(k, index, c) /\ UNCHANGED browser
    \/ \E k \in 1..MaxClients, n \in QuestionCounts : QuizEnd(k, n) /\ UNCHANGED browser
    \/ \E k \in 1..MaxClients, error \in ErrorPayloads : ErrorEvent(k, error) /\ UNCHANGED browser
    \/ \E k \in 1..MaxClients : DisconnectEvent(k) /\ UNCHANGED browser

Spec == Init /\ [][Next]_vars

\* The connection registry alone: the handlers that write clients, the players
\* sets or the Kahoot clients (the quiz and question events write none of
\* them), over two join codes.
RegistryPins == {"p1", "p2"}

NextRegistry ==
    \/ \E w \in Conns : Connection(w) /\ UNCHANGED browser
    \/ \E w \in Conns : Close(w) /\ UNCHANGED browser
    \/ \E w \in Conns, gamePin \in RegistryPins : JoinCmd(w, gamePin) /\ UNCHANGED browser
    \/ \E k \in 1..MaxClients : JoinResolve(k) /\ UNCHANGED browser
    \/ \E k \in 1..MaxClients : JoinReject(k) /\ UNCHANGED browser
    \/ \E w \in Conns : DisconnectCmd(w) /\ UNCHANGED browser
    \/ \E k \in 1..MaxClients : DisconnectEvent(k) /\ UNCHANGED browser

SpecRegistry == Init /\ [][NextRegistry]_vars

\* The question store alone: joins, question events and quiz ends, with
\* several question indices, several choices and several question records.
QuizMaxIndex == 1
QuizNumChoices == 2
QuizMaxQuestions == 3

QuizConns == {"w1"}

NextQuiz ==
    \/ \E w \in QuizConns : Connection(w) /\ UNCHANGED browser
    \/ \E w \in QuizConns, gamePin \in Pins : JoinCmd(w, gamePin) /\ UNCHANGED browser
    \/ \E k \in 1..MaxClients : JoinResolve(k) /\ UNCHANGED browser
    \/ \E k \in 1..MaxClients, index \in 0..QuizMaxIndex :
          QuestionStartOf(k, index, QuizNumChoices, QuizMaxQuestions) /\ UNCHANGED browser
    \/ \E k \in 1..MaxClients, index \in 0..QuizMaxIndex,
          c \in [1..QuizNumChoices -> BOOLEAN] : QuestionEnd(k, index, c) /\ UNCHANGED browser
    \/ \E k \in 1..MaxClients, n \in QuestionCounts : QuizEnd(k, n) /\ UNCHANGED browser

SpecQuiz == Init /\ [][NextQuiz]_vars

\* The session store alone, over two join codes: joins create sessions and
\* quizEnd marks them inactive.
NextSessions ==
    \/ \E w \in Conns : Connection(w) /\ UNCHANGED browser
    \/ \E w \in Conns, gamePin \in RegistryPins : JoinCmd(w, gamePin) /\ UNCHANGED browser
    \/ \E k \in 1..MaxClients : JoinResolve(k) /\ UNCHANGED browser
    \/ \E k \in 1..MaxClients, n \in QuestionCounts : QuizEnd(k, n) /\ UNCHANGED browser

SpecSessions == Init /\ [][NextSessions]_vars

\* Joins with events that the library emits before join() has resolved.
NextEarly ==
    \/ \E w \in Conns : Connection(w) /\ UNCHANGED browser
    \/ \E w \in Conns, gamePin \in Pins : JoinCmd(w, gamePin) /\ UNCHANGED browser
    \/ \E k \in 1..MaxClients : JoinResolve(k) /\ UNCHANGED browser
    \/ \E k \in 1..MaxClients : JoinReject(k) /\ UNCHANGED browser
    \/ \E k \in 1..MaxClients, n \in QuestionCounts : QuizStart(k, n) /\ UNCHANGED browser
    \/ \E k \in 1..MaxClients, index \in 0..MaxIndex : QuestionStart(k, index) /\ UNCHANGED browser
    \/ \E k \in 1..MaxClients, n \in QuestionCounts : EarlyQuizStart(k, n) /\ UNCHANGED browser
    \/ \E k \in 1..MaxClients, index \in 0..MaxIndex : EarlyQuestionStart(k, index) /\ UNCHANGED browser

SpecEarly == Init /\ [][NextEarly]_vars

\* Every handler runs to completion: while a join awaits the external
\* service nothing else is dispatched.
NoJoinPending == \A k \in 1..Len(kc) : kc[k].st # "joining"

NextAtomic ==
    \/ NoJoinPending /\ Next
    \/ \E k \in 1..MaxClients : JoinResolve(k) /\ UNCHANGED browser
    \/ \E k \in 1..MaxClients : JoinReject(k) /\ UNCHANGED browser

SpecAtomic == Init /\ [][NextAtomic]_vars

\* case "join" with a gamePin that is absent or the empty string: the test
\* of routes.ts:495 fails and the handler ends.
FalsyPins == {"undefined", ""}

\* A join without join code that is answered like a failed join.
JoinNoPinReplies(w, gamePin) ==
    /\ wsState[w] = "open"
    /\ gamePin \in FalsyPins
    /\ out' = Send(w, [type |-> "error",
                       message |-> <<"Could not join game. Invalid PIN or game not found.">>])
    /\ last' = Step("joinNoPin", w, NoPin, NoClient)
    /\ UNCHANGED <<wsState, clients, activeGames, gameSessions, questions, kc>>

JoinNoPin(w, gamePin) ==
    /\ wsState[w] = "open"
    /\ gamePin \in FalsyPins
    /\ out' = <<>>
    /\ last' = Step("joinNoPin", w, NoPin, NoClient)
    /\ UNCHANGED <<wsState, clients, activeGames, gameSessions, questions, kc>>

\* case "selectAnswer" with answer or answer.index absent: the test of
\* routes.ts:534-538 fails whatever the record of the connection holds.
SelectAnswerNoIndex(w) ==
    /\ wsState[w] = "open"
    /\ out' = <<>>
    /\ last' = Step("selectNoIndex", w, NoPin, NoClient)
    /\ UNCHANGED <<wsState, clients, activeGames, gameSessions, questions, kc>>

\* The commands alone: joins, disconnects and answers, with the commands
\* whose test fails.
NextCommands ==
    \/ \E w \in Conns : Connection(w) /\ UNCHANGED browser
    \/ \E w \in Conns : Close(w) /\ UNCHANGED browser
    \/ \E w \in Conns, gamePin \in Pins : JoinCmd(w, gamePin) /\ UNCHANGED browser
    \/ \E k \in 1..MaxClients : JoinResolve(k) /\ UNCHANGED browser
    \/ \E w \in Conns : DisconnectCmd(w) /\ UNCHANGED browser
    \/ \E w \in Conns, answerIndex \in 0..(NumChoices - 1) : SelectAnswerCmd(w, answerIndex) /\ UNCHANGED browser
    \/ \E w \in Conns, gamePin \in FalsyPins : JoinNoPin(w, gamePin) /\ UNCHANGED browser
    \/ \E w \in Conns : SelectAnswerNoIndex(w) /\ UNCHANGED browser

SpecCommands == Init /\ [][NextCommands]_vars

\* Questions with up to MaxChoices choices, more than the four colors and
\* shapes.
MaxChoices == 5

NextChoices ==
    \/ \E w \in Conns : Connection(w) /\ UNCHANGED browser
    \/ \E w \in Conns, gamePin \in Pins : JoinCmd(w, gamePin) /\ UNCHANGED browser
    \/ \E k \in 1..MaxClients : JoinResolve(k) /\ UNCHANGED browser
    \/ \E k \in 1..MaxClients, index \in 0..MaxIndex, numChoices \in 1..MaxChoices :
          QuestionStartOf(k, index, numChoices, MaxQuestions) /\ UNCHANGED browser

SpecChoices == Init /\ [][NextChoices]_vars

\* The record store alone: every handler that writes a session or a question.
NextStore ==
    \/ \E w \in QuizConns : Connection(w) /\ UNCHANGED browser
    \/ \E w \in QuizConns, gamePin \in Pins : JoinCmd(w, gamePin) /\ UNCHANGED browser
    \/ \E k \in 1..MaxClients : JoinResolve(k) /\ UNCHANGED browser
    \/ \E k \in 1..MaxClients, n \in QuestionCounts : QuizStart(k, n) /\ UNCHANGED browser
    \/ \E k \in 1..MaxClients, index \in 0..MaxIndex : QuestionStart(k, index) /\ UNCHANGED browser
    \/ \E k \in 1..MaxClients, index \in 0..MaxIndex,
          c \in [1..NumChoices -> BOOLEAN] : QuestionEnd(k, index, c) /\ UNCHANGED browser
    \/ \E k \in 1..MaxClients, n \in QuestionCounts : QuizEnd(k, n) /\ UNCHANGED browser

SpecStore == Init /\ [][NextStore]_vars

\* ------------------------------------------------------------ the browser
\* One browser page per connection: the page's WebSocket, the state of the
\* useKahootGame hook, of the GameInterface panel and of the GameConnection
\* form, and the frames in flight between page and server (WebSocket frames
\* arrive in the order sent).  A React effect runs after the state update
\* that changed one of its dependencies; its cleanup runs first.
MinPinLength == 4

\* Frames in flight per direction, and selectAnswer frames counted per
\* question.
MaxInFlight == 2
MaxSelections == 2

\* The pages of the model.
BrowserConns == {"w1"}

\* What a user types into the join code field.
FormInputs == {"", "123", "1234", "12a4", " 1234"}

\* The characters of a string.
Chars(s) ==
    CASE s = "" -> <<>>
      [] s = "123" -> <<"1", "2", "3">>
      [] s = "1234" -> <<"1", "2", "3", "4">>
      [] s = "12a4" -> <<"1", "2", "a", "4">>
      [] s = " 1234" -> <<" ", "1", "2", "3", "4">>

StringOf(chars) == CHOOSE s \in FormInputs : Chars(s) = chars

\* String.prototype.trim on the characters
Trim(chars) ==
    LET idx == {i \in 1..Len(chars) : chars[i] # " "}
        first == CHOOSE i \in idx : \A j \in idx : i <= j
        final == CHOOSE i \in idx : \A j \in idx : i >= j
    IN IF idx = {} THEN <<>> ELSE SubSeq(chars, first, final)

Digits == {"0", "1", "2", "3", "4", "5", "6", "7", "8", "9"}

\* /^\d+$/.test(s)
IsDigits(chars) == Len(chars) > 0 /\ \A i \in 1..Len(chars) : chars[i] \in Digits

\* A frame the hook sends; members that a frame does not have are NoPin and
\* NoAnswer.
ClientMessage(type, gamePin, index) ==
    [type |-> type, gamePin |-> gamePin, index |-> index]

\* answers.findIndex((a) => a.isCorrect), 0-based, -1 if none
FindCorrect(answers) ==
    LET marked == {i \in 1..Len(answers) : answers[i].isCorrect}
    IN IF marked = {} THEN -1 ELSE (CHOOSE i \in marked : \A j \in marked : i <= j) - 1

\* The auto-answer effect of the hook (useKahootGame.ts:104-129): the pending
\* timeout after a render that took the page from old to new; fresh tells
\* that gameState.currentQuestion is a new object.
HookEffect(old, new, fresh) ==
    IF ~fresh /\ old.autoAnswer = new.autoAnswer
       /\ old.answerDelay = new.answerDelay /\ old.connected = new.connected
    THEN old.timer
    ELSE IF new.autoAnswer /\ new.connected /\ new.question # <<>>
            /\ Len(new.question[1]) > 0
    THEN IF FindCorrect(new.question[1]) # -1
         THEN FindCorrect(new.question[1]) ELSE 0
    ELSE NoAnswer

\* The auto-answer effect of GameInterface, on the panel's own switches.
InterfaceEffect(old, new, fresh) ==
    IF ~fresh /\ old.interfaceAutoAnswer = new.interfaceAutoAnswer
       /\ old.interfaceAnswerDelay = new.interfaceAnswerDelay
       /\ old.connected = new.connected
    THEN old.interfaceTimer
    ELSE IF new.interfaceAutoAnswer /\ new.connected /\ new.question # <<>>
    THEN FindCorrect(new.question[1])
    ELSE NoAnswer

\* The page after the state update from old to new and the effects.
Render(old, new, fresh) ==
    [new EXCEPT !.timer = HookEffect(old, new, fresh),
                !.interfaceTimer = InterfaceEffect(old, new, fresh)]

\* A step of the page of connection w: the server does nothing.
PageStep(op, w, page) ==
    /\ browser' = [browser EXCEPT ![w] = page]
    /\ out' = <<>>
    /\ last' = Step(op, w, NoPin, NoClient)
    /\ UNCHANGED <<wsState, clients, activeGames, gameSessions, questions, kc>>

\* socket.current.onopen
SocketOpen(w) ==
    /\ wsState[w] = "open"
    /\ browser[w].readyState = "connecting"
    /\ PageStep("open", w, [browser[w] EXCEPT !.readyState = "open"])

\* handleInputChange of the form; the field is disabled while connected.
HandleInputChange(w, value) ==
    /\ ~browser[w].connected
    /\ LET chars == Trim(Chars(value))
       IN PageStep("input", w,
             [browser[w] EXCEPT
                !.inputPin = StringOf(chars),
                !.validationError =
                    \/ Len(chars) > 0 /\ ~IsDigits(chars)
                    \/ Len(chars) > 0 /\ Len(chars) < MinPinLength])

\* handleConnect of the form (the Join button, rendered while not connected)
\* and the connect of the hook it invokes with a valid input.
HandleConnect(w) ==
    /\ ~browser[w].connected
    /\ LET page == browser[w]
           chars == Chars(page.inputPin)
       IN IF Len(chars) < MinPinLength \/ ~IsDigits(chars)
          THEN PageStep("handleConnect", w, [page EXCEPT !.validationError = TRUE])
          ELSE IF page.readyState # "open"
          THEN PageStep("handleConnect", w, page)
          ELSE /\ Len(page.outbox) < MaxInFlight
               /\ PageStep("handleConnect", w,
                     Render(page,
                            [page EXCEPT
                               !.outbox = Append(@, ClientMessage("join", page.inputPin,
                                                                  NoAnswer)),
                               !.gamePin = page.inputPin,
                               !.connected = TRUE],
                            FALSE))

\* disconnect of the hook (the Disconnect buttons)
HookDisconnect(w) ==
    /\ LET page == browser[w]
       IN IF page.readyState # "open" \/ ~page.connected
          THEN PageStep("hookDisconnect", w, page)
          ELSE /\ Len(page.outbox) < MaxInFlight
               /\ PageStep("hookDisconnect", w,
                     Render(page,
                            [page EXCEPT
                               !.outbox = Append(@, ClientMessage("disconnect", NoPin,
                                                                  NoAnswer)),
                               !.connected = FALSE,
                               !.gamePin = NoPin,
                               !.question = <<>>],
                            page.question # <<>>))

\* handleAutoAnswerToggle of GameInterface and toggleAutoAnswer of the hook
ToggleAutoAnswer(w) ==
    /\ LET page == browser[w]
           checked == ~page.interfaceAutoAnswer
           panel == [page EXCEPT !.interfaceAutoAnswer = checked]
       IN IF page.readyState # "open"
          THEN PageStep("autoAnswer", w, Render(page, panel, FALSE))
          ELSE /\ Len(page.outbox) < MaxInFlight
               /\ PageStep("autoAnswer", w,
                     Render(page,
                            [panel EXCEPT
                               !.outbox = Append(@, ClientMessage("toggleAutoAnswer",
                                                                  NoPin, NoAnswer)),
                               !.autoAnswer = checked],
                            FALSE))

\* handleAnswerDelayToggle of GameInterface and toggleAnswerDelay of the hook
ToggleAnswerDelay(w) ==
    /\ LET page == browser[w]
           checked == ~page.interfaceAnswerDelay
           panel == [page EXCEPT !.interfaceAnswerDelay = checked]
       IN IF page.readyState # "open"
          THEN PageStep("answerDelay", w, Render(page, panel, FALSE))
          ELSE /\ Len(page.outbox) < MaxInFlight
               /\ PageStep("answerDelay", w,
                     Render(page,
                            [panel EXCEPT
                               !.outbox = Append(@, ClientMessage("toggleAnswerDelay",
                                                                  NoPin, NoAnswer)),
                               !.answerDelay = checked],
                            FALSE))

\* The timers of the model: of the hook's effect, of the panel's effect.
Timers == {"timer", "interfaceTimer"}

\* A timeout of an auto-answer effect fires: selectAnswer of the hook.
TimerFires(w, timer) ==
    /\ browser[w][timer] # NoAnswer
    /\ LET page == browser[w]
           cleared == [page EXCEPT ![timer] = NoAnswer]
       IN IF page.readyState # "open" \/ ~page.connected
          THEN PageStep("timer", w, cleared)
          ELSE /\ Len(page.outbox) < MaxInFlight
               /\ page.selections < MaxSelections
               /\ PageStep("timer", w,
                     [cleared EXCEPT
                        !.outbox = Append(@, ClientMessage("selectAnswer", NoPin,
                                                           page[timer])),
                        !.selections = @ + 1])

\* socket.current.onmessage: the oldest frame in flight arrives.
OnMessage(w) ==
    /\ browser[w].inbox # <<>>
    /\ LET page == browser[w]
           message == Head(page.inbox)
           rest == [page EXCEPT !.inbox = Tail(@)]
       IN IF message.type = "gameState"
          THEN LET question ==
                      IF "currentQuestion" \in DOMAIN message.data
                      THEN <<message.data.currentQuestion.answers>>
                      ELSE <<>>
                   state == [rest EXCEPT
                               !.question = question,
                               !.selections = IF question # <<>> THEN 0 ELSE @]
               IN PageStep("onmessage", w,
                     Render(page,
                            IF message.data.connected = FALSE
                            THEN [state EXCEPT !.connected = FALSE, !.gamePin = NoPin]
                            ELSE state,
                            page.question # <<>> \/ question # <<>>))
          ELSE PageStep("onmessage", w, rest)

\* The messages of a handler's sends that go to connection w.
MsgsTo(w, sent) ==
    LET mine == SelectSeq(sent, LAMBDA m : m.to = w)
    IN [i \in 1..Len(mine) |-> mine[i].msg]

\* What a server step sends is in flight to the pages.
Delivered ==
    /\ browser' = [w \in Conns |->
                      [browser[w] EXCEPT !.inbox = @ \o MsgsTo(w, out')]]
    /\ \A w \in Conns : Len(browser'[w].inbox) <= MaxInFlight

\* ws.on("message") for the oldest frame of a page in flight: the switch of
\* routes.ts:493-561 on a frame that passes the schema.
OnClientMessage(w) ==
    /\ browser[w].outbox # <<>>
    /\ LET message == Head(browser[w].outbox)
       IN CASE message.type = "join" -> JoinCmd(w, message.gamePin)
            [] message.type = "disconnect" -> DisconnectCmd(w)
            [] message.type = "selectAnswer" -> SelectAnswerCmd(w, message.index)
            [] OTHER -> ToggleCmd(w, message.type)
    /\ browser' = [v \in Conns |->
                      [browser[v] EXCEPT
                          !.outbox = IF v = w THEN Tail(@) ELSE @,
                          !.inbox = @ \o MsgsTo(v, out')]]
    /\ \A v \in Conns : Len(browser'[v].inbox) <= MaxInFlight

\* The join code the pages of these specifications enter.
HookInputs == {"1234"}

\* The hook and the server: joins that succeed or fail, disconnects by the
\* page and by the external service.
NextHook ==
    \/ \E w \in BrowserConns : Connection(w) /\ UNCHANGED browser
    \/ \E w \in BrowserConns : SocketOpen(w)
    \/ \E w \in BrowserConns, value \in HookInputs : HandleInputChange(w, value)
    \/ \E w \in BrowserConns : HandleConnect(w)
    \/ \E w \in BrowserConns : HookDisconnect(w)
    \/ \E w \in BrowserConns : OnClientMessage(w)
    \/ \E w \in BrowserConns : OnMessage(w)
    \/ \E k \in 1..MaxClients : JoinResolve(k) /\ Delivered
    \/ \E k \in 1..MaxClients : JoinReject(k) /\ Delivered
    \/ \E k \in 1..MaxClients : DisconnectEvent(k) /\ Delivered

SpecHook == Init /\ [][NextHook]_vars

\* Auto-answer: a joined page, questions, the two switches and the timers.
NextAuto ==
    \/ \E w \in BrowserConns : Connection(w) /\ UNCHANGED browser
    \/ \E w \in BrowserConns : SocketOpen(w)
    \/ \E w \in BrowserConns, value \in HookInputs : HandleInputChange(w, value)
    \/ \E w \in BrowserConns : HandleConnect(w)
    \/ \E w \in BrowserConns : HookDisconnect(w)
    \/ \E w \in BrowserConns : ToggleAutoAnswer(w)
    \/ \E w \in BrowserConns : ToggleAnswerDelay(w)
    \/ \E w \in BrowserConns, timer \in Timers : TimerFires(w, timer)
    \/ \E w \in BrowserConns : OnClientMessage(w)
    \/ \E w \in BrowserConns : OnMessage(w)
    \/ \E k \in 1..MaxClients : JoinResolve(k) /\ Delivered
    \/ \E k \in 1..MaxClients, index \in 0..MaxIndex :
          QuestionStartOf(k, index, QuizNumChoices, MaxQuestions) /\ Delivered

SpecAuto == Init /\ [][NextAuto]_vars

\* The form: what the user types, the Join button, and join frames that
\* reach the server from the page or from any other WebSocket client.
NextForm ==
    \/ \E w \in BrowserConns : Connection(w) /\ UNCHANGED browser
    \/ \E w \in BrowserConns : SocketOpen(w)
    \/ \E w \in BrowserConns, value \in FormInputs : HandleInputChange(w, value)
    \/ \E w \in BrowserConns : HandleConnect(w)
    \/ \E w \in BrowserConns : OnClientMessage(w)
    \/ \E w \in Conns \ BrowserConns : Connection(w) /\ UNCHANGED browser
    \/ \E w \in Conns \ BrowserConns, gamePin \in FormInputs \ FalsyPins :
          JoinCmd(w, gamePin) /\ UNCHANGED browser
    \/ \E k \in 1..MaxClients : JoinResolve(k) /\ Delivered

SpecForm == Init /\ [][NextForm]_vars

\* ================================================================ claims
CommandOps == {"join", "disconnect"}

EventOps == {"quizStart", "questionStart", "questionEnd", "quizEnd", "error",
             "disconnectEvent"}

JoinPending(w) == \E k \in 1..Len(kc) : kc[k].ws = w /\ kc[k].st = "joining"

\* C1: inbound commands of one connection are handled in arrival order: no
\* command of a connection is dispatched while the handler of an earlier
\* command of that connection (a join awaiting the external join call) has
\* not completed.
C1_ArrivalOrder ==
    [][last'.op \in CommandOps => ~JoinPending(last'.ws)]_vars

C3_NoRelayAfterDisconnect ==
    (last.op \in EventOps /\ kc[last.client].leaves > 0) => out = <<>>

\* C4: handling a join command with a well-formed join code produces exactly
\* one outbound state notification to the sending connection.
C4_JoinOneNotification ==
    (last.op = "joinResolve" /\ wsState[last.ws] = "open") =>
        /\ Len(out) = 1
        /\ out[1].to = last.ws
        /\ out[1].msg.type = "gameState"

\* C5: a notification relayed for an event of an external client on join
\* code P reaches every open connection in the players set of P at that
\* moment, not only the connection that created the client.
C5_FanOut ==
    [][(last'.op \in EventOps \ {"error"} /\ out' # <<>>
        /\ last'.pin \in DOMAIN activeGames)
        => \A w \in activeGames[last'.pin].players :
              wsState[w] = "open" => \E i \in 1..Len(out') : out'[i].to = w]_vars

\* C6: all connection records associated with one join code refer to the
\* same external-client handle, the one of the active-game entry of the code.
C6_OneHandlePerPin ==
    \A w \in DOMAIN clients :
        clients[w].gamePin # NoPin =>
            /\ \A w2 \in DOMAIN clients :
                  clients[w2].gamePin = clients[w].gamePin
                      => clients[w2].kahootClient = clients[w].kahootClient
            /\ (clients[w].gamePin \in DOMAIN activeGames
                  => activeGames[clients[w].gamePin].client = clients[w].kahootClient)

\* C7: correctness flags are write-once: once a questionEnd has revealed a
\* correct answer of a stored question, no later event changes the question's
\* isCorrect flags or its correctAnswer.
C7_WriteOnce ==
    [][\A q \in 1..Len(questions) :
          questions[q].correctAnswer # <<>>
              => /\ questions'[q].answers = questions[q].answers
                 /\ questions'[q].correctAnswer = questions[q].correctAnswer]_vars

\* C8: the connection map holds a record for exactly the open transport
\* connections, so the status endpoint's clients value (clients.size) is the
\* number of open connections.
C8_OneRecordPerOpenConnection ==
    DOMAIN clients = {w \in Conns : wsState[w] = "open"}

\* C9: after a connection left its join code by a disconnect command, by
\* closing, or through the external client's disconnect event, the session
\* created by that connection's join is inactive.
C9_InactiveOnDisconnect ==
    (/\ last.op \in {"disconnect", "close", "disconnectEvent"}
     /\ last.client # NoClient
     /\ kc[last.client].session # 0)
        => ~gameSessions[kc[last.client].session].active

\* C10: after the quizEnd event of an external client joined to P, the
\* session created by that client's join is inactive and the lookup of an
\* active session by P does not return it.
C10_InactiveOnQuizEnd ==
    last.op = "quizEnd" =>
        /\ ~gameSessions[kc[last.client].session].active
        /\ GetGameSessionByPin(gameSessions, last.pin) # kc[last.client].session

\* The frames C11 calls malformed: not valid JSON, a type that is not one of
\* the five commands, or a member of the wrong type.
Malformed(raw) ==
    \/ ~raw.json
    \/ raw.type \notin MessageTypes
    \/ raw.gamePin \notin {"undefined", "string"}
    \/ raw.answer \notin {"undefined", "object"}
    \/ raw.index \notin {"undefined", "number"}
    \/ raw.autoAnswer \notin {"undefined", "boolean"}
    \/ raw.answerDelay \notin {"undefined", "boolean"}

GenericError == [type |-> "error", message |-> <<"Invalid message format or action">>]

\* C11: every malformed frame is rejected by the parser or the schema, and
\* handling a rejected frame sends exactly one generic error notification to
\* the sender and changes no connection, active-game or store state; the
\* connection stays open with its record, so later messages are processed.
C11_MalformedRejected ==
    [][last'.op = "invalid" =>
        /\ \A raw \in RawMessages : Malformed(raw) => ~SchemaOk(raw)
        /\ out' = <<[to |-> last'.ws, msg |-> GenericError]>>
        /\ wsState'[last'.ws] = "open"
        /\ UNCHANGED <<wsState, clients, activeGames, gameSessions, questions, kc>>]_vars

\* A malformed frame has been rejected on a connection that is associated
\* with a join code.
C11_Witness ==
    /\ last.op = "invalid"
    /\ clients[last.ws].gamePin # NoPin
    /\ out # <<>>

\* The fields of an answer and of a question record that a reveal must keep.
AnswerFrame(a, b) == a.text = b.text /\ a.color = b.color /\ a.shape = b.shape

QuestionFrame(a, b) ==
    /\ \A f \in DOMAIN a \ {"answers", "correctAnswer"} : a[f] = b[f]
    /\ Len(a.answers) = Len(b.answers)
    /\ \A i \in 1..Len(a.answers) : AnswerFrame(a.answers[i], b.answers[i])

\* C12: a questionEnd for index N changes no question record but the stored
\* question N of the active session of the join code, and in that record
\* only the isCorrect flags and correctAnswer.
C12_RevealFrame ==
    [][\A k \in 1..MaxClients, n \in 0..QuizMaxIndex,
          c \in [1..QuizNumChoices -> BOOLEAN] :
          QuestionEnd(k, n, c) =>
              /\ Len(questions') = Len(questions)
              /\ \A q \in 1..Len(questions) :
                    /\ QuestionFrame(questions[q], questions'[q])
                    /\ questions'[q] # questions[q] =>
                          /\ questions[q].questionIndex = n
                          /\ questions[q].gameSessionId =
                                GetGameSessionByPin(gameSessions, kc[k].gamePin)]_vars

\* A reveal has just changed one question while the store holds questions of
\* another index and of another session.
C12_Witness ==
    /\ last.op = "questionEnd"
    /\ \E q, r, t \in 1..Len(questions) :
          /\ questions[q].correctAnswer # <<>>
          /\ questions[r].questionIndex # questions[q].questionIndex
          /\ questions[t].gameSessionId # questions[q].gameSessionId
          /\ questions[r].correctAnswer = <<>>
          /\ questions[t].correctAnswer = <<>>

\* The value client.join() rejects with.
JoinError == [text |-> "F", kind |-> "Error"]

\* The message text holds the text of the error.
Carries(message, error) == \E i \in 1..Len(message) : message[i] = error.text

\* C13: an error event is forwarded to its connection as exactly one error
\* notification whose message carries the error payload, and handling it
\* changes no connection record, active game, session or question.
C13_ErrorForwarded ==
    [][\A k \in 1..MaxClients, error \in ErrorPayloads :
          ErrorEvent(k, error) =>
              /\ Len(out') = 1
              /\ out'[1].to = kc[k].ws
              /\ out'[1].msg.type = "error"
              /\ Carries(out'[1].msg.message, error)
              /\ UNCHANGED <<clients, activeGames, gameSessions, questions>>]_vars

\* C14: when join() fails, the failure is forwarded as it is in one error
\* notification to the connection, and the connection record, the active
\* games and the sessions are as before.
C14_JoinFailureForwarded ==
    [][last'.op = "joinReject" =>
          /\ Len(out') = 1
          /\ out'[1].to = last'.ws
          /\ out'[1].msg.type = "error"
          /\ Carries(out'[1].msg.message, JoinError)
          /\ UNCHANGED <<clients, activeGames, gameSessions, questions>>]_vars

\* The maps and stores of the server.
serverState == <<wsState, clients, activeGames, gameSessions, questions>>

\* C15: a lookup miss is a no-op.  selectAnswer calls the external client
\* only with a handle, an active game and a current question, and a missed
\* selectAnswer changes nothing; updates of an unknown session or question id
\* leave the store as it is; a quizStart, questionStart or questionEnd event
\* for a join code without active game changes nothing and sends nothing.
C15_LookupMiss ==
    [][/\ \A w \in Conns, p \in RegistryPins :
             SelectAnswer(clients, activeGames, p, w) # NoClient =>
                 /\ w \in DOMAIN clients
                 /\ clients[w].kahootClient = SelectAnswer(clients, activeGames, p, w)
                 /\ p \in DOMAIN activeGames
                 /\ activeGames[p].currentQuestion # <<>>
       /\ last'.op = "selectAnswer" /\ last'.client = NoClient =>
             /\ UNCHANGED <<serverState, kc>>
             /\ out' = <<>>
       /\ \A id \in {0, Len(gameSessions) + 1} :
             UpdateGameSession(gameSessions, id, [active |-> FALSE]) = gameSessions
       /\ \A id \in {0, Len(questions) + 1} :
             UpdateQuestion(questions, id, [correctAnswer |-> <<>>]) = questions
       /\ (/\ last'.op \in {"quizStart", "questionStart", "questionEnd"}
           /\ last'.pin \notin DOMAIN activeGames) =>
             /\ UNCHANGED serverState
             /\ out' = <<>>]_vars

\* A question event arrived for a join code whose active game is gone while
\* the store still holds an active session for it.
C15_Witness ==
    /\ last.op \in {"quizStart", "questionStart", "questionEnd"}
    /\ last.pin \notin DOMAIN activeGames
    /\ GetGameSessionByPin(gameSessions, last.pin) # 0

\* C16: every state of the maps that is reachable with interleaved handlers
\* is reachable with atomic handlers.  With atomic handlers a connection that
\* has closed is associated with no join code and is a player of no game.
C16_AtomicReachable ==
    \A w \in Conns :
        wsState[w] = "closed" =>
            /\ w \in DOMAIN clients => clients[w] = NullClient
            /\ \A p \in DOMAIN activeGames : w \notin activeGames[p].players

IdentifiesCorrect(msg) ==
    \/ msg.type = "questionResult"
    \/ /\ "data" \in DOMAIN msg
       /\ "currentQuestion" \in DOMAIN msg.data
       /\ \E a \in 1..Len(msg.data.currentQuestion.answers) :
             msg.data.currentQuestion.answers[a].isCorrect

\* C18: the question record created and the notification sent on
\* questionStart have isCorrect false for every answer and no correctAnswer,
\* and a message that identifies correct answers is sent only by the handler
\* of a questionEnd event, for the question index of that event.
C18_UnknownUntilRevealed ==
    [][/\ last'.op = "questionStart" =>
             /\ \A q \in (Len(questions) + 1)..Len(questions') :
                   /\ questions'[q].correctAnswer = <<>>
                   /\ \A a \in 1..Len(questions'[q].answers) :
                         ~questions'[q].answers[a].isCorrect
             /\ \A i \in 1..Len(out') :
                   /\ "correctAnswer" \notin DOMAIN out'[i].msg.data.currentQuestion
                   /\ ~IdentifiesCorrect(out'[i].msg)
       /\ \A i \in 1..Len(out') :
             IdentifiesCorrect(out'[i].msg) =>
                 \E k \in 1..MaxClients, c \in [1..QuizNumChoices -> BOOLEAN] :
                     QuestionEnd(k, out'[i].msg.data.questionIndex, c)]_vars

\* A reveal naming a correct answer has been sent for a stored question.
C18_Witness ==
    /\ last.op = "questionEnd"
    /\ Len(out) = 1
    /\ Len(out[1].msg.data.correctIndices) > 0
    /\ Len(questions) > 1

\* C19: the session lookup by join code returns an active session of that
\* code, the earliest created one, and nothing exactly when there is none.
C19_SessionLookup ==
    \A p \in RegistryPins :
        LET r == GetGameSessionByPin(gameSessions, p)
            match(i) == gameSessions[i].gamePin = p /\ gameSessions[i].active
        IN /\ r # 0 => /\ r \in 1..Len(gameSessions)
                       /\ match(r)
                       /\ \A j \in 1..(r - 1) : ~match(j)
           /\ r = 0 => \A j \in 1..Len(gameSessions) : ~match(j)

\* The store holds an inactive session and a later active session of one
\* join code, so that the lookup skips an earlier record.
C19_Witness ==
    /\ Len(gameSessions) = 2
    /\ gameSessions[1].gamePin = gameSessions[2].gamePin
    /\ ~gameSessions[1].active
    /\ gameSessions[2].active

\* C20: every message sent to a connection has type gameState,
\* questionResult, answerResult or error; gameState and questionResult
\* messages have a data member, error messages a message member.
C20_Envelope ==
    \A i \in 1..Len(out) :
        LET msg == out[i].msg
        IN /\ msg.type \in {"gameState", "questionResult", "answerResult", "error"}
           /\ msg.type \in {"gameState", "questionResult"} => "data" \in DOMAIN msg
           /\ msg.type = "error" => "message" \in DOMAIN msg

\* An error event has been forwarded.
C20_Witness ==
    /\ last.op = "error"
    /\ Len(out) = 1
    /\ out[1].msg.type = "error"

C22_RegistryConsistent ==
    NoJoinPending =>
        \A w \in Conns, p \in RegistryPins :
            (p \in DOMAIN activeGames /\ w \in activeGames[p].players)
                <=> (w \in DOMAIN clients /\ clients[w].gamePin = p)

\* C23: every external client that has joined and on which leave() was not
\* called is the handle of the connection record of an open connection.
C23_NoOrphan ==
    \A k \in 1..Len(kc) :
        (kc[k].st = "joined" /\ kc[k].leaves = 0) =>
            \E w \in DOMAIN clients :
                wsState[w] = "open" /\ clients[w].kahootClient = k

\* C24: at most one active session record exists per join code.
C24_OneActiveSession ==
    \A i, j \in 1..Len(gameSessions) :
        (/\ i # j
         /\ gameSessions[i].active
         /\ gameSessions[j].active) => gameSessions[i].gamePin # gameSessions[j].gamePin

\* C25: at most one question record exists per session and question index.
C25_OneQuestionPerIndex ==
    \A q, r \in 1..Len(questions) :
        (/\ questions[q].gameSessionId = questions[r].gameSessionId
         /\ questions[q].questionIndex = questions[r].questionIndex) => q = r

\* C26: no quizStart or questionStart event emitted after the handlers were
\* registered is dropped for a join that succeeds.
C26_NoEventLost ==
    \A k \in 1..Len(kc) : kc[k].st = "joined" => ~kc[k].lost

\* C27: in every gameState notification that carries gameProgress,
\* 0 <= current <= total.
C27_ProgressInRange ==
    \A i \in 1..Len(out) :
        ("data" \in DOMAIN out[i].msg /\ "gameProgress" \in DOMAIN out[i].msg.data) =>
            /\ 0 <= out[i].msg.data.gameProgress.current
            /\ out[i].msg.data.gameProgress.current <= out[i].msg.data.gameProgress.total

CleanupOps == {"disconnect", "close", "disconnectEvent"}

\* C28: every active game has a player.  A join creates the entry of a new
\* join code with the joining connection as its only player; a cleanup
\* removes the entry when it removes the last player and otherwise changes
\* nothing of the entry but the players.
C28_PlayersNonEmpty ==
    [][/\ \A p \in DOMAIN activeGames' : activeGames'[p].players # {}
       /\ (last'.op = "joinResolve" /\ last'.pin \notin DOMAIN activeGames) =>
             activeGames'[last'.pin].players = {last'.ws}
       /\ (last'.op \in CleanupOps /\ last'.pin \in DOMAIN activeGames) =>
             IF activeGames[last'.pin].players \ {last'.ws} = {}
             THEN last'.pin \notin DOMAIN activeGames'
             ELSE /\ last'.pin \in DOMAIN activeGames'
                  /\ activeGames'[last'.pin] =
                        [activeGames[last'.pin] EXCEPT !.players = @ \ {last'.ws}]]_vars

\* A cleanup has removed one of two players of a game that has a quiz and a
\* question snapshot.
C28_Witness ==
    /\ last.op \in CleanupOps
    /\ last.pin \in DOMAIN activeGames
    /\ last.ws \notin activeGames[last.pin].players
    /\ activeGames[last.pin].currentQuestion # <<>>
    /\ activeGames[last.pin].currentQuiz # <<>>

\* seq is the ascending list of the 0-based indices of the truthy entries.
AscendingTruthy(seq, c) ==
    /\ \A i \in 1..(Len(seq) - 1) : seq[i] < seq[i + 1]
    /\ {seq[i] : i \in 1..Len(seq)} = {a - 1 : a \in {b \in 1..Len(c) : c[b]}}

\* C29: on questionEnd with correctChoices c the questionResult carries the
\* ascending indices of the truthy entries of c, is sent only if a stored
\* question exists for the current question index of the game, and the
\* stored question N has isCorrect exactly for those indices and
\* correctAnswer the answer at the first of them, or none.
C29_RevealValues ==
    [][\A k \in 1..MaxClients, n \in 0..QuizMaxIndex,
          c \in [1..QuizNumChoices -> BOOLEAN] :
          QuestionEnd(k, n, c) =>
              LET pin == kc[k].gamePin
                  session == GetGameSessionByPin(gameSessions, pin)
                  q == IF session # 0 THEN GetQuestionByIndex(questions, session, n)
                       ELSE 0
                  truthy == {a \in 1..Len(c) : c[a]}
              IN /\ \A i \in 1..Len(out') :
                       /\ out'[i].msg.type = "questionResult"
                       /\ AscendingTruthy(out'[i].msg.data.correctIndices, c)
                       /\ GetCurrentQuestion(gameSessions', questions',
                                             activeGames', pin) # 0
                 /\ (pin \in DOMAIN activeGames /\ q # 0) =>
                       /\ \A a \in 1..Len(questions'[q].answers) :
                             questions'[q].answers[a].isCorrect <=> a \in truthy
                       /\ questions'[q].correctAnswer =
                             IF truthy = {} THEN <<>>
                             ELSE <<questions'[q].answers[
                                      CHOOSE a \in truthy : \A b \in truthy : a <= b]>>]_vars

\* A reveal with two correct choices has been stored and sent.
C29_Witness ==
    /\ last.op = "questionEnd"
    /\ Len(out) = 1
    /\ Len(out[1].msg.data.correctIndices) = 2
    /\ \E q \in 1..Len(questions) : questions[q].correctAnswer # <<>>

\* C30: a selectAnswer command calls answerQuestion at most once, on the
\* handle of the sender's record with the given index, and only when the
\* record has a join code and a handle and the game of that code has a
\* current question; it changes no map or store and sends nothing.
C30_SelectAnswer ==
    [][\A w \in Conns, answerIndex \in 0..(NumChoices - 1) :
          SelectAnswerCmd(w, answerIndex) =>
              /\ UNCHANGED serverState
              /\ out' = <<>>
              /\ last'.client # NoClient =>
                    /\ w \in DOMAIN clients
                    /\ clients[w].gamePin # NoPin
                    /\ clients[w].kahootClient = last'.client
                    /\ last'.answer = answerIndex
                    /\ clients[w].gamePin \in DOMAIN activeGames
                    /\ activeGames[clients[w].gamePin].currentQuestion # <<>>
              /\ last'.client = NoClient => last'.answer = NoAnswer]_vars

\* An answer has been sent on the handle of a connection that did not create
\* the game.
C30_Witness ==
    /\ last.op = "selectAnswer"
    /\ last.client # NoClient
    /\ last.pin \in DOMAIN activeGames
    /\ activeGames[last.pin].client # last.client

\* C31: the session snapshot follows the question transitions.  After a
\* quizStart the active session's questionCount equals the active game's
\* totalQuestions; after a questionStart the active session's currentQuestion
\* equals the active game's currentQuestionIndex; and whenever no handler is
\* suspended the two indices agree for every join code that has an active
\* game and an active session.
C31_IndicesAgree ==
    /\ \A p \in DOMAIN activeGames :
          LET session == GetGameSessionByPin(gameSessions, p)
          IN (last.op = "quizStart" /\ last.pin = p /\ session # 0) =>
                gameSessions[session].questionCount = activeGames[p].totalQuestions
    /\ \A p \in DOMAIN activeGames :
          LET session == GetGameSessionByPin(gameSessions, p)
          IN (last.op = "questionStart" /\ last.pin = p /\ session # 0) =>
                gameSessions[session].currentQuestion =
                    activeGames[p].currentQuestionIndex
    /\ NoJoinPending =>
          \A p \in DOMAIN activeGames :
             LET session == GetGameSessionByPin(gameSessions, p)
             IN session # 0 =>
                   gameSessions[session].currentQuestion =
                       activeGames[p].currentQuestionIndex

\* C32: the gameState notification of a questionStart carries one answer per
\* choice, in order, with the choice's text and the color and shape of its
\* position, and every answer has a defined color and a defined shape.
C32_ColorShapeDefined ==
    \A i \in 1..Len(out) :
       (out[i].msg.type = "gameState" /\ "currentQuestion" \in DOMAIN out[i].msg.data) =>
          LET answers == out[i].msg.data.currentQuestion.answers
              choices == activeGames[last.pin].currentQuestion[1].choices
          IN /\ Len(answers) = Len(choices)
             /\ \A a \in 1..Len(answers) :
                   /\ answers[a].text = choices[a].answer
                   /\ a <= 4 => answers[a].color = Colors[a]
                   /\ a <= 4 => answers[a].shape = Shapes[a]
                   /\ answers[a].color # "undefined"
                   /\ answers[a].shape # "undefined"

\* The fields a handler gives in its session update.
SessionUpdateFields(op) ==
    CASE op = "quizStart" -> {"questionCount"}
      [] op = "questionStart" -> {"currentQuestion"}
      [] op = "quizEnd" -> {"active"}
      [] OTHER -> {}

\* The fields a handler gives in its question update.
QuestionUpdateFields(op) ==
    IF op = "questionEnd" THEN {"answers", "correctAnswer"} ELSE {}

NoOpStep(step) ==
    \/ step.op \in {"joinNoPin", "selectNoIndex"}
    \/ step.op \in {"disconnect", "selectAnswer"} /\ step.pin = NoPin

\* C34: a command whose precondition fails is a silent no-op: a join without
\* a join code or with an empty one, a disconnect on a connection without a
\* join code, a selectAnswer on such a connection or without an answer index
\* change no map, store or client and send nothing.
C34_SilentNoOp ==
    [][NoOpStep(last') =>
          /\ UNCHANGED <<wsState, clients, activeGames, gameSessions, questions, kc>>
          /\ out' = <<>>]_vars

\* A second consecutive disconnect on a connection that had joined, while
\* another connection is still a player.
C34_Witness ==
    /\ last.op = "disconnect"
    /\ last.pin = NoPin
    /\ \E k \in 1..Len(kc) : kc[k].ws = last.ws /\ kc[k].leaves = 1
    /\ DOMAIN activeGames # {}

\* C35: the hook's connected flag agrees with the server.  Whenever the hook
\* of a page reports connected with join code P, no frame of the page is in
\* flight in either direction and no join of its connection is pending, the
\* server's record of the connection holds P; so a join that the server
\* rejected, once the error notification has arrived, has left the hook
\* disconnected.
C35_ConnectedAgrees ==
    \A w \in Conns :
       (/\ browser[w].connected
        /\ browser[w].inbox = <<>>
        /\ browser[w].outbox = <<>>
        /\ ~JoinPending(w)) =>
          /\ w \in DOMAIN clients
          /\ clients[w].gamePin = browser[w].gamePin

\* C36: with auto-answer on, a question that arrives causes one selectAnswer
\* frame: the hook sends at most one selectAnswer between the arrival of a
\* question and the arrival of the next.
C36_OneSelection ==
    \A w \in Conns : browser[w].selections <= 1

\* A join code the form accepts: decimal digits only, at least four.
ValidPin(gamePin) ==
    /\ Len(Chars(gamePin)) >= MinPinLength
    /\ IsDigits(Chars(gamePin))

\* The form sends a join frame only for a valid join code and otherwise sets
\* the validation error and sends nothing.
FormSendsNumeric ==
    /\ \A w \in Conns : \A i \in 1..Len(browser[w].outbox) :
          browser[w].outbox[i].type = "join" => ValidPin(browser[w].outbox[i].gamePin)
    /\ (last.op = "handleConnect" /\ ~ValidPin(browser[last.ws].inputPin)) =>
          /\ browser[last.ws].validationError
          /\ browser[last.ws].outbox = <<>>
          /\ ~browser[last.ws].connected

\* C37: a join code reaches the external service only if it is numeric: the
\* form sends a join frame only for decimal digits of length at least four,
\* and the server takes up a join (constructs a Kahoot client and calls join)
\* only for such a code.
C37_NumericOnly ==
    /\ FormSendsNumeric
    /\ \A k \in 1..Len(kc) : ValidPin(kc[k].gamePin)

====
